---- MODULE Spec2Model ----
(***************************************************************************)
(* Model of insta-x-bridge: a FastAPI service that fetches the latest      *)
(* Instagram post of an account (Apify), rewrites its caption as a tweet   *)
(* (Groq LLM) and publishes it (Twitter).                                  *)
(*                                                                         *)
(* Text whose length matters (LLM output, tweet content, exception         *)
(* messages of the LLM call) is a sequence of one-character strings.       *)
(* Opaque text (URLs, captions, error messages of the scraper and of the   *)
(* platform) is a TLA+ string.                                             *)
(*                                                                         *)
(* The handlers of main.py are `async def` bodies that never suspend on a  *)
(* pending operation, so one request runs from start to finish before the  *)
(* next one starts: the model has one request in flight, cut into one step *)
(* per external call.                                                      *)
(***************************************************************************)
EXTENDS Integers, Sequences, FiniteSets, TLC

\* ------------------------------------------------------------------------
\* Bounds of the model
\* ------------------------------------------------------------------------

\* backend texts and contents have lengths up to the limit plus MaxOver
MaxOver == 2

\* requests served in one run of the process
MaxRequests == 2

\* backend texts carry up to MaxPad whitespace characters on each side
MaxPad == 1

\* ------------------------------------------------------------------------
\* Program constants
\* ------------------------------------------------------------------------

LlmMaxLen == 280

LlmKeepLen == 277

TweetMaxLen == 280

TweetKeepLen == 277

Ellipsis == <<".", ".", ".">>

ErrorPrefix ==
    << "E","r","r","o","r"," ","d","u","r","i","n","g"," ",
       "a","n","a","l","y","s","i","s",":"," " >>

NoDataMessage ==
    << "N","o"," ","d","a","t","a"," ","a","v","a","i","l","a","b","l","e",
       " ","t","o"," ","a","n","a","l","y","z","e","." >>

NotInitialized == "Twitter API client not initialized"

NoPostsFound == "No posts found"

KeyNotConfigured == "API key not configured"

StatusUrlBase == "https://twitter.com/user/status/"

DefaultUsername == "bbcnews"

\* Python's None
None == "<None>"

\* ------------------------------------------------------------------------
\* Python string and dict primitives
\* ------------------------------------------------------------------------

Whitespace == {" ", "\n", "\t"}

\* s[:n]
Slice(s, n) == SubSeq(s, 1, IF Len(s) < n THEN Len(s) ELSE n)

RECURSIVE LStrip(_)
LStrip(s) ==
    IF s = <<>> THEN s
    ELSE IF Head(s) \in Whitespace THEN LStrip(Tail(s)) ELSE s

RECURSIVE RStrip(_)
RStrip(s) ==
    IF s = <<>> THEN s
    ELSE IF s[Len(s)] \in Whitespace THEN RStrip(SubSeq(s, 1, Len(s) - 1))
    ELSE s

\* str.strip()
Strip(s) == RStrip(LStrip(s))

\* dict.get(key, default)
Get(d, key, default) == IF key \in DOMAIN d THEN d[key] ELSE default

\* truthiness of an optional string
Truthy(v) == v # None /\ v # ""

\* ------------------------------------------------------------------------
\* Inputs: texts, messages, scraped items
\* ------------------------------------------------------------------------

Spaces(n) == [i \in 1..n |-> " "]

\* n characters, the first and last not whitespace, some inner whitespace
Body(n) ==
    [i \in 1..n |-> IF i = 1 \/ i = n THEN "x"
                    ELSE IF i % 5 = 0 THEN " "
                    ELSE IF i % 2 = 0 THEN "y" ELSE "z"]

TextLens == {0, 2} \cup ((LlmMaxLen - 1) .. (LlmMaxLen + MaxOver))

\* what the LLM backend may answer
BackendTexts ==
    { Spaces(l) \o Body(n) \o Spaces(t) :
        l \in 0..MaxPad, n \in TextLens, t \in 0..MaxPad }

MsgLens == {0, 9} \cup
    ((LlmMaxLen - Len(ErrorPrefix) - 1) .. (LlmMaxLen - Len(ErrorPrefix) + MaxOver - 1))

\* str(e) of what the LLM call may raise
LlmErrors == { [i \in 1..n |-> "e"] : n \in MsgLens }

\* content of a POST /post-tweet request
Contents == { Body(n) : n \in TextLens } \cup { Body(2) \o Spaces(1) }

ImageUrls == {None, "", "https://example.com/image.jpg"}

Usernames == {DefaultUsername}

FetchErrors == {"", "API error"}

PublishErrors == {"403 Forbidden"}

TweetIds == {"1234567890"}

MediaIds == {"media123"}

ItemFull ==
    [ caption |-> "Hello", displayUrl |-> "https://example.com/test.jpg",
      timestamp |-> "2023-04-01T12:00:00Z", likesCount |-> 10,
      commentsCount |-> 2, url |-> "https://instagram.com/p/test123" ]

ItemOlder ==
    [ caption |-> "Older", displayUrl |-> "https://example.com/old.jpg",
      timestamp |-> "2023-03-01T12:00:00Z", likesCount |-> 7,
      commentsCount |-> 1, url |-> "https://instagram.com/p/old" ]

ItemBare == [ caption |-> "Bare" ]

ItemNoImage == [ displayUrl |-> "", likesCount |-> 3 ]

\* what the dataset of a scraper run may hold
ItemLists ==
    { <<>>, <<ItemFull>>, <<ItemFull, ItemOlder>>, <<ItemBare, ItemFull>>,
      <<ItemNoImage>> }

EnvNames ==
    { "APIFY_API_KEY", "GROQ_API_KEY", "TWITTER_API_KEY", "TWITTER_API_SECRET",
      "TWITTER_ACCESS_TOKEN", "TWITTER_ACCESS_TOKEN_SECRET" }

TwitterCredentials ==
    { "TWITTER_API_KEY", "TWITTER_API_SECRET",
      "TWITTER_ACCESS_TOKEN", "TWITTER_ACCESS_TOKEN_SECRET" }

\* a local or a field that holds nothing yet: a record, a text, a list of
\* items
Unset == [unset |-> TRUE]

NoText == <<None>>

NoItems == <<Unset>>

\* ------------------------------------------------------------------------
\* twitter_service.py
\* ------------------------------------------------------------------------

ConstructorOutcomes == {"ok", "raises"}

\* `any` in place of `all`: the client is given up only if every credential
\* is missing
TwitterServiceInit_Any(e, ctor) ==
    IF \A c \in TwitterCredentials : ~e[c]
    THEN [client |-> None, api |-> None]
    ELSE IF ctor = "ok"
         THEN [client |-> "tweepy.Client", api |-> "tweepy.API"]
         ELSE [client |-> None, api |-> None]

\* TwitterService.__init__: the client exists only if the four credentials
\* are present and the tweepy constructors do not raise
TwitterServiceInit(e, ctor) ==
    IF \E c \in TwitterCredentials : ~e[c]
    THEN [client |-> None, api |-> None]
    ELSE IF ctor = "ok"
         THEN [client |-> "tweepy.Client", api |-> "tweepy.API"]
         ELSE [client |-> None, api |-> None]

\* the length ceiling cutting at 280 before adding the ellipsis
TweetTruncate_NoRoom(c) ==
    IF Len(c) > TweetMaxLen THEN Slice(c, TweetMaxLen) \o Ellipsis ELSE c

\* the length ceiling of post_tweet
TweetTruncate(c) ==
    IF Len(c) > TweetMaxLen THEN Slice(c, TweetKeepLen) \o Ellipsis ELSE c

\* `if image_url is not None:`, which takes the empty string for a URL
WantsImage_NotNone(url) == url # None

\* `if image_url:`
WantsImage(url) == Truthy(url)

DownloadOutcomes == {"ok", "network_error", "http_error"}

\* _download_image: the bytes, or None when requests.get or
\* raise_for_status raises
DownloadResult(out) == IF out = "ok" THEN "BytesIO" ELSE None

\* a failed download tried again
AfterDownload_Retry(data) == IF data # None THEN "upload" ELSE "download"

\* the upload attempted whatever the download returned
AfterDownload_Unchecked(data) == "upload"

\* `if image_data:` ... `else:` proceed without the image
AfterDownload(data) == IF data # None THEN "upload" ELSE "create"

PublishFailure(msg) == [success |-> FALSE, error |-> msg]

PublishSuccess(id) ==
    [success |-> TRUE, tweet_id |-> id, tweet_url |-> <<StatusUrlBase, id>>]

\* ------------------------------------------------------------------------
\* llm_service.py
\* ------------------------------------------------------------------------

PromptKeys == <<"caption", "timestamp", "likes", "comments">>

KeyChars(k) ==
    CASE k = "caption"   -> <<"'","c","a","p","t","i","o","n","'">>
      [] k = "timestamp" -> <<"'","t","i","m","e","s","t","a","m","p","'">>
      [] k = "likes"     -> <<"'","l","i","k","e","s","'">>
      [] k = "comments"  -> <<"'","c","o","m","m","e","n","t","s","'">>

\* the first key the prompt template reads that post_data lacks, as an index
\* of PromptKeys (0: none is missing)
MissingKey(post_data) ==
    LET missing == {i \in 1..Len(PromptKeys) : PromptKeys[i] \notin DOMAIN post_data}
    IN IF missing = {} THEN 0
       ELSE CHOOSE i \in missing : \A j \in missing : i <= j

\* the length ceiling with the ellipsis added to a full-length cut
LlmEnforceLength_NoRoom(t) ==
    IF Len(t) > LlmMaxLen THEN Slice(t, LlmMaxLen) \o Ellipsis ELSE t

\* the length ceiling of analyze_with_llm
LlmEnforceLength(t) ==
    IF Len(t) > LlmMaxLen THEN Slice(t, LlmKeepLen) \o Ellipsis ELSE t

LlmText(s) == [kind |-> "text", text |-> s]

LlmRaise(m) == [kind |-> "raise", msg |-> m]

\* what the Groq client may do: without a key it raises; with one the
\* completion call answers a text or raises
LlmOutcomes(e) ==
    { LlmRaise(m) : m \in LlmErrors } \cup
    (IF e["GROQ_API_KEY"] THEN { LlmText(s) : s \in BackendTexts } ELSE {})

\* analyze_with_llm, given what the backend does
analyze_with_llm(post_data, out) ==
    IF DOMAIN post_data = {} THEN NoDataMessage
    ELSE IF MissingKey(post_data) # 0
         THEN ErrorPrefix \o KeyChars(PromptKeys[MissingKey(post_data)])
    ELSE IF out.kind = "raise" THEN ErrorPrefix \o out.msg
    ELSE LlmEnforceLength(Strip(out.text))

\* ------------------------------------------------------------------------
\* main.py: the Fetcher
\* ------------------------------------------------------------------------

FetchFailure(msg) == [success |-> FALSE, error |-> msg]

\* `if not api_key:`
HasScraperKey(e) == e["APIFY_API_KEY"]

\* the last item of the dataset taken for the latest post
FetchResult_LastItem(items) ==
    IF items = <<>> THEN FetchFailure(NoPostsFound)
    ELSE LET latest_post == items[Len(items)] IN
         [ caption   |-> Get(latest_post, "caption", ""),
           image_url |-> Get(latest_post, "displayUrl", ""),
           timestamp |-> Get(latest_post, "timestamp", ""),
           likes     |-> Get(latest_post, "likesCount", 0),
           comments  |-> Get(latest_post, "commentsCount", 0),
           post_url  |-> Get(latest_post, "url", ""),
           success   |-> TRUE ]

\* the result of get_latest_instagram_post for the items of the dataset
FetchResult(items) ==
    IF items = <<>> THEN FetchFailure(NoPostsFound)
    ELSE LET latest_post == items[1] IN
         [ caption   |-> Get(latest_post, "caption", ""),
           image_url |-> Get(latest_post, "displayUrl", ""),
           timestamp |-> Get(latest_post, "timestamp", ""),
           likes     |-> Get(latest_post, "likesCount", 0),
           comments  |-> Get(latest_post, "commentsCount", 0),
           post_url  |-> Get(latest_post, "url", ""),
           success   |-> TRUE ]

\* ------------------------------------------------------------------------
\* main.py: the HTTP handlers' responses
\* ------------------------------------------------------------------------

HttpError(code, detail) == [status |-> code, detail |-> detail]

HttpOk(body) == [status |-> 200, body |-> body]

\* a check that looks for a missing result instead of a failed one
FetchFailed_OnlyIfEmpty(result) == DOMAIN result = {}

\* `if not result.get("success"):` after the Fetcher, in both handlers
FetchFailed(result) == ~Get(result, "success", FALSE)

NotFound(result) ==
    HttpError(404, Get(result, "error", "Failed to fetch Instagram post"))

\* get_instagram_post: the post with the analysis attached
AnalysisResponse(result, analysis) ==
    HttpOk([analysis |-> analysis] @@ result)

\* post_tweet: 400 when the Publisher failed
PostTweetResponse(result) ==
    IF ~Get(result, "success", FALSE)
    THEN HttpError(400, Get(result, "error", "Failed to post tweet"))
    ELSE HttpOk(result)

\* auto_post answering as post_tweet does when the Publisher failed
AutoPostResponse_FailsOnPublish(u, insta_result, tweet_content, tweet_result) ==
    IF ~Get(tweet_result, "success", FALSE)
    THEN HttpError(400, Get(tweet_result, "error", "Failed to post tweet"))
    ELSE HttpOk([ instagram |-> [ username  |-> u,
                                  caption   |-> Get(insta_result, "caption", None),
                                  image_url |-> Get(insta_result, "image_url", None) ],
                  twitter |-> tweet_result,
                  generated_tweet |-> tweet_content ])

\* auto_post: the composite record, whatever the Publisher returned
AutoPostResponse(u, insta_result, tweet_content, tweet_result) ==
    HttpOk([ instagram |-> [ username  |-> u,
                             caption   |-> Get(insta_result, "caption", None),
                             image_url |-> Get(insta_result, "image_url", None) ],
             twitter |-> tweet_result,
             generated_tweet |-> tweet_content ])

\* ------------------------------------------------------------------------
\* State
\* ------------------------------------------------------------------------

VARIABLES
    env,              \* which environment variables are set
    twitter_service,  \* the process-wide TwitterService instance
    concurrent,       \* what the last publish call of another request returned
    served,           \* how many requests have been answered
    pc,               \* where the request in flight is
    op,               \* the handler serving it
    username,         \* its path parameter
    request,          \* the body of a POST /post-tweet
    dataset,          \* the items of the scraper run, inside the Fetcher
    insta_result,     \* what the Fetcher returned
    llm_response,     \* what the LLM backend did, inside the Generator
    tweet_content,    \* what the Generator returned
    content,          \* post_tweet's content after the length ceiling
    image_url,        \* post_tweet's image_url argument
    image_data,       \* what _download_image returned
    media_ids,        \* post_tweet's media_ids
    tweet_result,     \* what the Publisher returned
    http,             \* the HTTP response of the request
    calls             \* the external calls of the request, in order

vars ==
    << env, twitter_service, concurrent, served, pc, op, username, request, dataset, insta_result,
       llm_response, tweet_content, content, image_url, image_data, media_ids,
       tweet_result, http, calls >>

process == << env, twitter_service, concurrent >>

fetcher == << dataset, insta_result >>

generator == << llm_response, tweet_content >>

publisher == << content, image_url, image_data, media_ids, tweet_result >>

Ops == {"get_instagram_post", "post_tweet", "auto_post"}

\* an external call, what it was given and whether it raised
Call(name, raised) ==
    [name |-> name, text |-> <<>>, media_ids |-> <<>>, raised |-> raised]

CreateCall(text, ids, raised) ==
    [name |-> "create_tweet", text |-> text, media_ids |-> ids,
     raised |-> raised]

\* the calls of the request made to one of the named backends
CallsTo(names) == SelectSeq(calls, LAMBDA c : c.name \in names)

\* one of the named backends raised in this request
RaisedIn(names) ==
    \E i \in 1..Len(calls) : calls[i].name \in names /\ calls[i].raised

ScraperCalls == {"actor_call", "dataset_read"}

PlatformCalls == {"image_download", "media_upload", "create_tweet"}

NoRequest ==
    /\ op = "none"
    /\ username = None
    /\ request = Unset
    /\ dataset = NoItems
    /\ insta_result = Unset
    /\ llm_response = Unset
    /\ tweet_content = NoText
    /\ content = NoText
    /\ image_url = None
    /\ image_data = None
    /\ media_ids = <<>>
    /\ tweet_result = Unset
    /\ http = Unset
    /\ calls = <<>>

\* the process after import: load_dotenv and `twitter_service = TwitterService()`
Init ==
    /\ env \in [EnvNames -> BOOLEAN]
    /\ \E ctor \in ConstructorOutcomes :
          twitter_service = TwitterServiceInit(env, ctor)
    /\ concurrent = Unset
    /\ served = 0
    /\ pc = "idle"
    /\ NoRequest

\* ------------------------------------------------------------------------
\* A request arrives
\* ------------------------------------------------------------------------

Request(o, u, c, i) ==
    /\ pc = "idle"
    /\ served < MaxRequests
    /\ op' = o
    /\ username' = u
    /\ request' = IF o = "post_tweet" THEN [content |-> c, image_url |-> i]
                  ELSE Unset
    /\ pc' = IF o = "post_tweet" THEN "publish" ELSE "fetch"
    /\ UNCHANGED << process, served, fetcher, generator, publisher, http, calls >>

\* ------------------------------------------------------------------------
\* get_latest_instagram_post
\* ------------------------------------------------------------------------

\* read the key; without it return at once
FetchStart ==
    /\ pc = "fetch"
    /\ IF HasScraperKey(env)
       THEN /\ pc' = "actor"
            /\ UNCHANGED insta_result
       ELSE /\ insta_result' = FetchFailure(KeyNotConfigured)
            /\ pc' = "fetched"
    /\ UNCHANGED << process, served, op, username, request, dataset, generator,
                    publisher, http, calls >>

\* client.actor(...).call(run_input=...): the run, or an exception
ActorCall ==
    /\ pc = "actor"
    /\ \/ /\ calls' = Append(calls, Call("actor_call", FALSE))
          /\ pc' = "dataset"
          /\ UNCHANGED insta_result
       \/ \E msg \in FetchErrors :
             /\ calls' = Append(calls, Call("actor_call", TRUE))
             /\ insta_result' = FetchFailure(msg)
             /\ pc' = "fetched"
    /\ UNCHANGED << process, served, op, username, request, dataset, generator,
                    publisher, http >>

\* list(client.dataset(...).iterate_items()): the items, or an exception
DatasetRead ==
    /\ pc = "dataset"
    /\ \/ \E items \in ItemLists :
             /\ calls' = Append(calls, Call("dataset_read", FALSE))
             /\ dataset' = items
             /\ insta_result' = FetchResult(items)
       \/ \E msg \in FetchErrors :
             /\ calls' = Append(calls, Call("dataset_read", TRUE))
             /\ insta_result' = FetchFailure(msg)
             /\ UNCHANGED dataset
    /\ pc' = "fetched"
    /\ UNCHANGED << process, served, op, username, request, generator, publisher,
                    http >>

\* the handler after the Fetcher: 404, or on to the Generator
FetchReturn ==
    /\ pc = "fetched"
    /\ dataset' = NoItems
    /\ IF FetchFailed(insta_result)
       THEN /\ http' = NotFound(insta_result)
            /\ pc' = "done"
       ELSE /\ pc' = "generate"
            /\ UNCHANGED http
    /\ UNCHANGED << process, served, op, username, request, insta_result, generator,
                    publisher, calls >>

\* ------------------------------------------------------------------------
\* analyze_with_llm
\* ------------------------------------------------------------------------

Generate ==
    /\ pc = "generate"
    /\ \E out \in LlmOutcomes(env) :
          /\ llm_response' = out
          /\ tweet_content' = analyze_with_llm(insta_result, out)
          /\ calls' = IF env["GROQ_API_KEY"]
                      THEN Append(calls, Call("llm_completion",
                                               out.kind = "raise"))
                      ELSE calls
    /\ pc' = "generated"
    /\ UNCHANGED << process, served, op, username, request, fetcher, publisher, http >>

\* the handler after the Generator: the response of get_instagram_post, or
\* on to the Publisher in auto_post
GenerateReturn ==
    /\ pc = "generated"
    /\ llm_response' = Unset
    /\ IF op = "get_instagram_post"
       THEN /\ http' = AnalysisResponse(insta_result, tweet_content)
            /\ pc' = "done"
       ELSE /\ pc' = "publish"
            /\ UNCHANGED http
    /\ UNCHANGED << process, served, op, username, request, fetcher, tweet_content,
                    publisher, calls >>

\* ------------------------------------------------------------------------
\* TwitterService.post_tweet
\* ------------------------------------------------------------------------

\* what the handler passes to post_to_twitter
PublishArgs ==
    IF op = "post_tweet" THEN request
    ELSE [ content |-> tweet_content,
           image_url |-> Get(insta_result, "image_url", None) ]

\* `if not self.client:`
ClientMissing(service) == service.client = None

\* the client check, the length ceiling and `if image_url:`
PublishEnter ==
    /\ pc = "publish"
    /\ IF ClientMissing(twitter_service)
       THEN /\ tweet_result' = PublishFailure(NotInitialized)
            /\ pc' = "published"
            /\ UNCHANGED << content, image_url, media_ids >>
       ELSE /\ content' = TweetTruncate(PublishArgs.content)
            /\ image_url' = PublishArgs.image_url
            /\ media_ids' = <<>>
            /\ pc' = IF WantsImage(PublishArgs.image_url) THEN "download"
                     ELSE "create"
            /\ UNCHANGED tweet_result
    /\ UNCHANGED << process, served, op, username, request, fetcher, generator,
                    image_data, http, calls >>

\* _download_image(image_url) and the branch on its result
DownloadImage ==
    /\ pc = "download"
    /\ \E out \in DownloadOutcomes :
          /\ calls' = Append(calls, Call("image_download", out # "ok"))
          /\ image_data' = DownloadResult(out)
          /\ pc' = AfterDownload(DownloadResult(out))
    /\ UNCHANGED << process, served, op, username, request, fetcher, generator,
                    content, image_url, media_ids, tweet_result, http >>

\* media_upload outside the try block: its exception leaves post_tweet and
\* the handler
MediaUpload_Uncaught ==
    /\ pc = "upload"
    /\ \/ \E id \in MediaIds :
             /\ calls' = Append(calls, Call("media_upload", FALSE))
             /\ media_ids' = Append(media_ids, id)
             /\ pc' = "create"
             /\ UNCHANGED http
       \/ /\ calls' = Append(calls, Call("media_upload", TRUE))
          /\ http' = HttpError(500, "Internal Server Error")
          /\ pc' = "done"
          /\ UNCHANGED media_ids
    /\ UNCHANGED << process, served, op, username, request, fetcher, generator,
                    content, image_url, image_data, tweet_result >>

\* self.api.media_upload(...): a media id, or an exception
MediaUpload ==
    /\ pc = "upload"
    /\ \/ \E id \in MediaIds :
             /\ calls' = Append(calls, Call("media_upload", FALSE))
             /\ media_ids' = Append(media_ids, id)
             /\ pc' = "create"
             /\ UNCHANGED tweet_result
       \/ \E msg \in PublishErrors :
             /\ calls' = Append(calls, Call("media_upload", TRUE))
             /\ tweet_result' = PublishFailure(msg)
             /\ pc' = "published"
             /\ UNCHANGED media_ids
    /\ UNCHANGED << process, served, op, username, request, fetcher, generator,
                    content, image_url, image_data, http >>

\* create_tweet whose failure makes post_tweet give up the shared client
CreateTweet_DropsClient ==
    /\ pc = "create"
    /\ \/ \E id \in TweetIds :
             /\ calls' = Append(calls, CreateCall(content, media_ids, FALSE))
             /\ tweet_result' = PublishSuccess(id)
             /\ UNCHANGED twitter_service
       \/ \E msg \in PublishErrors :
             /\ calls' = Append(calls, CreateCall(content, media_ids, TRUE))
             /\ tweet_result' = PublishFailure(msg)
             /\ twitter_service' = [client |-> None, api |-> None]
    /\ pc' = "published"
    /\ UNCHANGED << env, concurrent, served, op, username, request, fetcher,
                    generator, content, image_url, image_data, media_ids,
                    http >>

\* self.client.create_tweet(...): the tweet, or an exception
CreateTweet ==
    /\ pc = "create"
    /\ \/ \E id \in TweetIds :
             /\ calls' = Append(calls, CreateCall(content, media_ids, FALSE))
             /\ tweet_result' = PublishSuccess(id)
       \/ \E msg \in PublishErrors :
             /\ calls' = Append(calls, CreateCall(content, media_ids, TRUE))
             /\ tweet_result' = PublishFailure(msg)
    /\ pc' = "published"
    /\ UNCHANGED << process, served, op, username, request, fetcher, generator,
                    content, image_url, image_data, media_ids, http >>

\* the handler after the Publisher
PublishReturn ==
    /\ pc = "published"
    /\ http' = IF op = "post_tweet" THEN PostTweetResponse(tweet_result)
               ELSE AutoPostResponse(username, insta_result, tweet_content,
                                     tweet_result)
    /\ pc' = "done"
    /\ UNCHANGED << process, served, op, username, request, fetcher, generator,
                    publisher, calls >>

\* ------------------------------------------------------------------------
\* The response is sent; the request's records are gone
\* ------------------------------------------------------------------------

Finish ==
    /\ pc = "done"
    /\ pc' = "idle"
    /\ op' = "none"
    /\ username' = None
    /\ request' = Unset
    /\ dataset' = NoItems
    /\ insta_result' = Unset
    /\ llm_response' = Unset
    /\ tweet_content' = NoText
    /\ content' = NoText
    /\ image_url' = None
    /\ image_data' = None
    /\ media_ids' = <<>>
    /\ tweet_result' = Unset
    /\ http' = Unset
    /\ calls' = <<>>
    /\ served' = served + 1
    /\ UNCHANGED process

Next ==
    \/ \E o \in Ops, u \in Usernames, c \in Contents, i \in ImageUrls :
          Request(o, u, c, i)
    \/ FetchStart
    \/ ActorCall
    \/ DatasetRead
    \/ FetchReturn
    \/ Generate
    \/ GenerateReturn
    \/ PublishEnter
    \/ DownloadImage
    \/ MediaUpload
    \/ CreateTweet
    \/ PublishReturn
    \/ Finish

Spec == Init /\ [][Next]_vars

\* ------------------------------------------------------------------------
\* Requests served concurrently
\* ------------------------------------------------------------------------

\* a whole post_tweet call made for another request between two steps of
\* the request in flight: it reads the shared twitter_service and returns
\* the not-initialized failure, a tweet, or the failure of one of its calls
ConcurrentPublish ==
    /\ concurrent' \in
          IF ClientMissing(twitter_service)
          THEN { PublishFailure(NotInitialized) }
          ELSE { PublishSuccess(id) : id \in TweetIds } \cup
               { PublishFailure(msg) : msg \in PublishErrors }
    /\ concurrent' # concurrent
    /\ UNCHANGED << env, twitter_service, served, pc, op, username, request,
                    fetcher, generator, publisher, http, calls >>

ConcurrentNext == Next \/ ConcurrentPublish

ConcurrentSpec == Init /\ [][ConcurrentNext]_vars

\* ------------------------------------------------------------------------
\* Properties
\* ------------------------------------------------------------------------

\* C1: whatever the backend does (any text, any raised error with any
\* message), the string analyze_with_llm returns has at most 280 characters.
C1_GeneratorOutputAtMost280 ==
    pc = "generated" => Len(tweet_content) <= 280

\* C2: when the backend call succeeds, the Generator's result depends on the
\* trimmed backend text t only: longer than 280, it is the first 277
\* characters of t followed by "..." (exactly 280 characters); otherwise it
\* is t unchanged.
C2_SuccessResultIsTruncatedTrim ==
    (pc = "generated" /\ llm_response.kind = "text") =>
        LET s == llm_response.text
            lead == Cardinality({i \in 1..Len(s) :
                                   \A j \in 1..i : s[j] \in Whitespace})
            trail == Cardinality({i \in 1..Len(s) :
                                    \A j \in i..Len(s) : s[j] \in Whitespace})
            t == IF lead = Len(s) THEN <<>>
                 ELSE SubSeq(s, lead + 1, Len(s) - trail)
        IN IF Len(t) > 280
           THEN /\ Len(tweet_content) = 280
                /\ tweet_content = SubSeq(t, 1, 277) \o <<".", ".", ".">>
           ELSE tweet_content = t

\* C2 witness: a padded backend text longer than 280 after trimming has been
\* cut to 280 characters ending in the ellipsis.
C2_Witness ==
    /\ pc = "generated"
    /\ llm_response.kind = "text"
    /\ Len(llm_response.text) > 282
    /\ llm_response.text[1] = " "
    /\ Len(tweet_content) = 280
    /\ SubSeq(tweet_content, 278, 280) = <<".", ".", ".">>

\* C3 as stated: no exception of a backend call leaves the Fetcher, the
\* Generator or the Publisher; whenever the scraper call, the dataset read,
\* the LLM call, the image download, the media upload or the create-post
\* call raises, the component returns success=false with an error message
\* (Fetcher, Publisher) or an "Error during analysis: ..." string
\* (Generator).
C3_EveryRaiseGivesFailure ==
    /\ http # Unset => http.status # 500
    /\ (pc = "fetched" /\ RaisedIn(ScraperCalls)) =>
          /\ insta_result # Unset
          /\ insta_result.success = FALSE
          /\ "error" \in DOMAIN insta_result
    /\ (pc = "generated" /\ llm_response.kind = "raise") =>
          tweet_content = ErrorPrefix \o llm_response.msg
    /\ (pc = "published" /\ RaisedIn(PlatformCalls)) =>
          /\ tweet_result # Unset
          /\ tweet_result.success = FALSE
          /\ "error" \in DOMAIN tweet_result

\* C3 amended: no exception of a backend call leaves the Fetcher, the
\* Generator or the Publisher.  A raise of the scraper call, the dataset
\* read, the media upload or the create-post call gives success=false with
\* an error message; a raise of the LLM call gives the "Error during
\* analysis: ..." string; a raise of the image download is absorbed inside
\* the Publisher, which still returns a result of its own.
C3_NoExceptionLeavesAComponent ==
    /\ http # Unset => http.status # 500
    /\ (pc = "fetched" /\ RaisedIn(ScraperCalls)) =>
          /\ insta_result # Unset
          /\ insta_result.success = FALSE
          /\ "error" \in DOMAIN insta_result
    /\ (pc = "generated" /\ llm_response.kind = "raise") =>
          tweet_content = ErrorPrefix \o llm_response.msg
    /\ (pc = "published" /\ RaisedIn({"media_upload", "create_tweet"})) =>
          /\ tweet_result # Unset
          /\ tweet_result.success = FALSE
          /\ "error" \in DOMAIN tweet_result
    /\ (pc = "published" /\ RaisedIn({"image_download"})) =>
          /\ tweet_result # Unset
          /\ "success" \in DOMAIN tweet_result

\* C3 witness: the media upload raised and the Publisher returned
\* success=false with the error.
C3_Witness ==
    /\ pc = "published"
    /\ RaisedIn({"media_upload"})
    /\ tweet_result.success = FALSE
    /\ tweet_result.error \in PublishErrors

\* C4: in auto_post, once the Fetcher has succeeded the request ends with
\* HTTP 200 and the composite body (caption and image of the post, the
\* generated message, the Publisher's result) whatever the Publisher
\* returned; a Publisher failure shows only as twitter.success=false with
\* its error, never as an HTTP error status.
C4_AutoPostAnswers200 ==
    (op = "auto_post" /\ insta_result # Unset /\ insta_result.success) =>
        /\ http # Unset => http.status = 200
        /\ pc = "done" =>
              /\ http # Unset
              /\ http.body.instagram.caption = insta_result.caption
              /\ http.body.instagram.image_url = insta_result.image_url
              /\ http.body.generated_tweet = tweet_content
              /\ http.body.twitter = tweet_result
              /\ tweet_result # Unset
              /\ ~tweet_result.success =>
                    /\ http.body.twitter.success = FALSE
                    /\ "error" \in DOMAIN http.body.twitter

\* C4 witness: an auto_post whose create-post call raised has answered 200
\* with the failure inline.
C4_Witness ==
    /\ op = "auto_post"
    /\ pc = "done"
    /\ RaisedIn({"create_tweet"})
    /\ http.status = 200
    /\ http.body.twitter.success = FALSE
    /\ http.body.twitter.error \in PublishErrors

\* C5: in get_instagram_post and in auto_post, a Fetcher result with
\* success=false ends the request with HTTP 404 carrying the Fetcher's error
\* as detail, and neither the Generator nor the Publisher runs in that
\* request; the Generator runs only after a Fetcher success.
C5_FetchFailureStopsThePipeline ==
    /\ (op \in {"get_instagram_post", "auto_post"}
          /\ insta_result # Unset /\ ~insta_result.success) =>
          /\ pc \in {"fetched", "done"}
          /\ tweet_content = NoText
          /\ tweet_result = Unset
          /\ CallsTo({"llm_completion"} \cup PlatformCalls) = <<>>
          /\ pc = "done" => http = [status |-> 404, detail |-> insta_result.error]
    /\ (pc \in {"generate", "generated"} \/ tweet_content # NoText) =>
          /\ insta_result # Unset
          /\ insta_result.success

\* C5 witness: a request whose dataset read raised has been answered 404.
C5_Witness ==
    /\ op = "auto_post"
    /\ pc = "done"
    /\ RaisedIn({"dataset_read"})
    /\ http.status = 404
    /\ http.detail \in FetchErrors

\* C6: a component whose credentials are absent returns without any external
\* call: without the scraper key the Fetcher returns success=false and the
\* scraper is never called; with any of the four platform credentials
\* missing the client is not constructed and every publish call returns
\* success=false with the "client not initialized" error and no download,
\* upload or create-post call.
C6_MissingCredentialsShortCircuit ==
    /\ ~env["APIFY_API_KEY"] =>
          /\ CallsTo(ScraperCalls) = <<>>
          /\ pc \notin {"actor", "dataset"}
          /\ pc = "fetched" => /\ insta_result # Unset
                               /\ insta_result.success = FALSE
    /\ (\E c \in TwitterCredentials : ~env[c]) =>
          /\ twitter_service.client = None
          /\ CallsTo(PlatformCalls) = <<>>
          /\ pc \notin {"download", "upload", "create"}
          /\ pc = "published" =>
                tweet_result = [success |-> FALSE,
                                error |-> "Twitter API client not initialized"]

\* C6 witness: with one platform credential missing a publish call has
\* returned the "client not initialized" failure.
C6_Witness ==
    /\ pc = "published"
    /\ Cardinality({c \in TwitterCredentials : ~env[c]}) = 1
    /\ tweet_result.success = FALSE
    /\ tweet_result.error = "Twitter API client not initialized"
    /\ CallsTo(PlatformCalls) = <<>>

\* C7: with the scraper key present and no backend call raising, the
\* Fetcher's result follows from the items returned: none gives
\* success=false with the error "No posts found"; at least one gives
\* success=true with caption, image URL, timestamp, like count, comment
\* count and post URL of the first item only, a field the item lacks being
\* the empty string (zero for the counts).
C7_FetchResultFromFirstItem ==
    (pc = "fetched" /\ dataset # NoItems) =>
        IF Len(dataset) = 0
        THEN insta_result = [success |-> FALSE, error |-> "No posts found"]
        ELSE LET first == dataset[1]
                 Field(k, default) ==
                     IF k \in DOMAIN first THEN first[k] ELSE default
             IN /\ insta_result.success = TRUE
                /\ insta_result.caption = Field("caption", "")
                /\ insta_result.image_url = Field("displayUrl", "")
                /\ insta_result.timestamp = Field("timestamp", "")
                /\ insta_result.likes = Field("likesCount", 0)
                /\ insta_result.comments = Field("commentsCount", 0)
                /\ insta_result.post_url = Field("url", "")

\* C7 witness: of two items the Fetcher has returned the first, whose
\* missing fields are the defaults.
C7_Witness ==
    /\ pc = "fetched"
    /\ dataset # NoItems
    /\ Len(dataset) = 2
    /\ "displayUrl" \notin DOMAIN dataset[1]
    /\ insta_result.success
    /\ insta_result.caption = dataset[1].caption
    /\ insta_result.image_url = ""
    /\ insta_result.likes = 0

\* the request in flight asked the Publisher for an image
ImageRequested ==
    IF op = "post_tweet" THEN request.image_url \notin {None, ""}
    ELSE insta_result.image_url \notin {None, ""}

\* C8: a publish call on an initialized Publisher with no image URL (absent
\* or empty) downloads nothing, uploads nothing and makes exactly one
\* create-post call, which carries no media identifiers.
C8_NoImageMeansTextOnlyPost ==
    (pc \in {"download", "upload", "create", "published"}
        /\ twitter_service.client # None /\ ~ImageRequested) =>
        /\ pc \in {"create", "published"}
        /\ CallsTo({"image_download", "media_upload"}) = <<>>
        /\ pc = "create" => CallsTo({"create_tweet"}) = <<>>
        /\ pc = "published" =>
              /\ Len(CallsTo({"create_tweet"})) = 1
              /\ CallsTo({"create_tweet"})[1].media_ids = <<>>

\* C8 witness: a publish call with the empty string for an image URL has
\* made its one create-post call.
C8_Witness ==
    /\ pc = "published"
    /\ op = "post_tweet"
    /\ request.image_url = ""
    /\ Len(CallsTo({"create_tweet"})) = 1
    /\ CallsTo(PlatformCalls)[1].media_ids = <<>>
    /\ tweet_result.success

\* C9: a publish call with an image URL whose download fails (network error
\* or non-success status) goes on: no media upload is attempted, a text-only
\* create-post call is made, and the result is success=true if that call
\* succeeds.
C9_FailedDownloadStillPosts ==
    RaisedIn({"image_download"}) =>
        /\ pc \in {"create", "published", "done"}
        /\ CallsTo({"media_upload"}) = <<>>
        /\ pc \in {"published", "done"} =>
              /\ Len(CallsTo({"create_tweet"})) = 1
              /\ CallsTo({"create_tweet"})[1].media_ids = <<>>
              /\ ~CallsTo({"create_tweet"})[1].raised =>
                    tweet_result.success = TRUE

\* C9 witness: after a download that failed the Publisher has returned
\* success=true.
C9_Witness ==
    /\ pc = "published"
    /\ RaisedIn({"image_download"})
    /\ image_data = None
    /\ tweet_result.success = TRUE

\* C10: the text given to the create-post call has at most 280 characters:
\* content longer than 280 goes as its first 277 characters followed by
\* "..." (exactly 280 characters), content of at most 280 goes unchanged.
C10_SentTextAtMost280 ==
    \A i \in 1..Len(calls) :
        calls[i].name = "create_tweet" =>
            LET given == IF op = "post_tweet" THEN request.content
                         ELSE tweet_content
                sent == calls[i].text
            IN /\ Len(sent) <= 280
               /\ IF Len(given) > 280
                  THEN /\ Len(sent) = 280
                       /\ sent = SubSeq(given, 1, 277) \o <<".", ".", ".">>
                  ELSE sent = given

\* C10 witness: a content of more than 280 characters has been sent as
\* 280 characters ending in the ellipsis.
C10_Witness ==
    /\ op = "post_tweet"
    /\ Len(request.content) > 280
    /\ Len(calls) = 1
    /\ calls[1].name = "create_tweet"
    /\ Len(calls[1].text) = 280
    /\ SubSeq(calls[1].text, 278, 280) = <<".", ".", ".">>

\* C11: a missing credential (scraper key, LLM key, any of the four platform
\* credentials) reaches the HTTP caller as a 4xx status in every operation
\* that uses the component depending on it, get_instagram_post and
\* auto_post included, and the call depending on it is never retried.
C11_MissingCredentialAnswers4xx ==
    pc = "done" =>
        /\ (op \in {"get_instagram_post", "auto_post"}
              /\ ~env["APIFY_API_KEY"]) =>
              /\ http.status \in 400..499
              /\ CallsTo(ScraperCalls) = <<>>
        /\ (tweet_content # NoText /\ ~env["GROQ_API_KEY"]) =>
              /\ http.status \in 400..499
              /\ CallsTo({"llm_completion"}) = <<>>
        /\ (tweet_result # Unset
              /\ \E c \in TwitterCredentials : ~env[c]) =>
              /\ http.status \in 400..499
              /\ CallsTo(PlatformCalls) = <<>>

\* C12: the callers of the Generator take a result starting with "Error
\* during analysis:" for a failure: auto_post never gives such a result to
\* the Publisher as the content to post, and get_instagram_post never
\* returns it as a successful analysis.
C12_ErrorStringIsNotUsedAsMessage ==
    LET marker == SubSeq(ErrorPrefix, 1, 22)
        IsError(t) == Len(t) >= 22 /\ SubSeq(t, 1, 22) = marker
    IN /\ (op = "auto_post"
             /\ pc \in {"publish", "download", "upload", "create", "published"}) =>
             ~IsError(tweet_content)
       /\ \A i \in 1..Len(calls) :
             calls[i].name = "create_tweet" => ~IsError(calls[i].text)
       /\ (op = "get_instagram_post" /\ pc = "done" /\ http.status = 200) =>
             ~IsError(http.body.analysis)

\* C13: in one auto_post request the external calls come in the order
\* scraper run, dataset read, LLM completion, image download, media upload,
\* create-post; each is made after the one before it has returned and at
\* most once in the request, a call that failed included.
C13_CallsInPipelineOrderOnce ==
    LET order == << "actor_call", "dataset_read", "llm_completion",
                    "image_download", "media_upload", "create_tweet" >>
        Rank(n) == CHOOSE k \in 1..Len(order) : order[k] = n
    IN op = "auto_post" =>
          /\ \A i \in 1..Len(calls) :
                \E k \in 1..Len(order) : order[k] = calls[i].name
          /\ \A i, j \in 1..Len(calls) :
                i < j => Rank(calls[i].name) < Rank(calls[j].name)

\* C13 witness: an auto_post request has made each of the six calls, in
\* order, once.
C13_Witness ==
    /\ op = "auto_post"
    /\ pc = "published"
    /\ [i \in 1..Len(calls) |-> calls[i].name] =
          << "actor_call", "dataset_read", "llm_completion",
             "image_download", "media_upload", "create_tweet" >>

\* C15: in an auto_post request that reaches the create-post call, the text
\* sent to the platform is the string returned as generated_tweet in the
\* response.
C15_SentTextIsGeneratedTweet ==
    (op = "auto_post" /\ pc = "done" /\ http.status = 200) =>
        \A i \in 1..Len(calls) :
            calls[i].name = "create_tweet" =>
                calls[i].text = http.body.generated_tweet

\* C14: whatever the interleaving of requests, the process-wide
\* twitter_service (its client and api) keeps the value it got at
\* construction: no publish call, successful or failed, of the request in
\* flight or of a concurrent one, changes it.
C14_ClientHandleNeverChanges ==
    [][twitter_service' = twitter_service]_vars

\* C14 witness: in a later request, after a failed create-post call of the
\* request in flight and a failed publish call of a concurrent request, the
\* client is still there.
C14_Witness ==
    /\ served >= 1
    /\ pc = "published"
    /\ RaisedIn({"create_tweet"})
    /\ concurrent # Unset
    /\ ~concurrent.success
    /\ twitter_service.client # None

====
